---- MODULE Spec2Model ----
(***************************************************************************)
(* A model of dashboard.py, the Streamlit dashboard over a folder of CSV   *)
(* files: the cached CSV loader, the date coercion heuristic, the DuckDB   *)
(* registration, the table resolver get_table, the guarded dashboard       *)
(* queries, the saved-query catalog, ad-hoc SQL and the CSV export.        *)
(*                                                                         *)
(* Strings whose characters the program inspects (file base names, table   *)
(* names, candidate substrings, column names) are tuples of one-character  *)
(* strings, so that lower(), replace() and the substring test `in` are     *)
(* computed character by character.                                        *)
(***************************************************************************)
EXTENDS Integers, Sequences, FiniteSets, TLC

VARIABLES
    disk,               \* the file system: directory path -> NoDir or a listing
    cache,              \* st.cache_data of load_csvs_from_folder: path -> result
    folder,             \* the sidebar text input
    pressed,            \* the button that triggered this script run, or "none"
    auto_coerce_dates,  \* the sidebar checkbox
    adv,                \* the saved query / ad-hoc SQL chosen in the Advanced tab
    pc,                 \* position of the script run
    msgs,               \* outcome messages of this run, in order
    dfs,                \* the script's dfs: sequence of [key, df]
    con,                \* the script's DuckDB connection: NoCon or [tables]
    calls,              \* run_sql calls of this run, in order
    ops,                \* kinds of operations performed in this run
    loaded,             \* this run's call of load_csvs_from_folder and its result
    resolved,           \* the table each dashboard role resolved to in this run
    rs,                 \* resolver harnesses: the tables given and what resolved
    co                  \* coercion harnesses: the table set given and the results

appVars == <<disk, cache, folder, pressed, auto_coerce_dates, adv, pc, msgs,
             dfs, con, calls, ops, loaded, resolved>>
vars == <<disk, cache, folder, pressed, auto_coerce_dates, adv, pc, msgs,
          dfs, con, calls, ops, loaded, resolved, rs, co>>

----------------------------------------------------------------------------
(* Bounds of the model *)

MaxTables == 3      \* resolver harness: loaded tables per input
MaxCands == 2       \* resolver harness: candidates per call
MaxRows == 10       \* coercion harness: strings of a column
MaxNulls == 1       \* coercion harness: nulls before and after the strings
MaxCells == 2       \* repeated coercion harness: cells of the drawn column
MaxMoves == 1       \* load-order harness: files moved out of alphabetical order

----------------------------------------------------------------------------
(* String literals *)

n_payment == <<"p", "a", "y", "m", "e", "n", "t">>
n_customer == <<"c", "u", "s", "t", "o", "m", "e", "r">>
n_customer_old == <<"c", "u", "s", "t", "o", "m", "e", "r", "_", "o", "l", "d">>
n_customer_new == <<"c", "u", "s", "t", "o", "m", "e", "r", "_", "n", "e", "w">>
n_Customer_Data == <<"C", "u", "s", "t", "o", "m", "e", "r", " ", "D", "a", "t", "a">>
n_customer_data == <<"c", "u", "s", "t", "o", "m", "e", "r", "_", "d", "a", "t", "a">>
n_Payment == <<"P", "a", "y", "m", "e", "n", "t">>
n_rental == <<"r", "e", "n", "t", "a", "l">>
n_staff == <<"s", "t", "a", "f", "f">>
n_store == <<"s", "t", "o", "r", "e">>
n_film == <<"f", "i", "l", "m">>
n_film_category == <<"f", "i", "l", "m", "_", "c", "a", "t", "e", "g", "o", "r", "y">>
n_filmcategory == <<"f", "i", "l", "m", "c", "a", "t", "e", "g", "o", "r", "y">>
n_film_dash_category == <<"f", "i", "l", "m", "-", "c", "a", "t", "e", "g", "o", "r", "y">>
n_category == <<"c", "a", "t", "e", "g", "o", "r", "y">>
n_inventory == <<"i", "n", "v", "e", "n", "t", "o", "r", "y">>
n_actor == <<"a", "c", "t", "o", "r">>
n_film_actor == <<"f", "i", "l", "m", "_", "a", "c", "t", "o", "r">>
n_filmactor == <<"f", "i", "l", "m", "a", "c", "t", "o", "r">>
n_city == <<"c", "i", "t", "y">>
n_address == <<"a", "d", "d", "r", "e", "s", "s">>
n_broken == <<"b", "r", "o", "k", "e", "n">>
n_notes == <<"n", "o", "t", "e", "s">>
n_date == <<"d", "a", "t", "e">>
c_payment_date == <<"p", "a", "y", "m", "e", "n", "t", "_", "d", "a", "t", "e">>
c_amount == <<"a", "m", "o", "u", "n", "t">>
c_first_name == <<"f", "i", "r", "s", "t", "_", "n", "a", "m", "e">>
c_Order_Date == <<"O", "r", "d", "e", "r", "_", "D", "a", "t", "e">>
c_last_update == <<"l", "a", "s", "t", "_", "u", "p", "d", "a", "t", "e">>

\* Python's None, as returned by get_table; no name equals it (names are
\* tuples of single characters).
None == <<"None">>

----------------------------------------------------------------------------
(* str.lower, str.replace and the substring test *)

UpperCase ==
    ("A" :> "a") @@ ("B" :> "b") @@ ("C" :> "c") @@ ("D" :> "d") @@ ("E" :> "e") @@
    ("F" :> "f") @@ ("G" :> "g") @@ ("H" :> "h") @@ ("I" :> "i") @@ ("J" :> "j") @@
    ("K" :> "k") @@ ("L" :> "l") @@ ("M" :> "m") @@ ("N" :> "n") @@ ("O" :> "o") @@
    ("P" :> "p") @@ ("Q" :> "q") @@ ("R" :> "r") @@ ("S" :> "s") @@ ("T" :> "t") @@
    ("U" :> "u") @@ ("V" :> "v") @@ ("W" :> "w") @@ ("X" :> "x") @@ ("Y" :> "y") @@
    ("Z" :> "z")

\* s.lower()
Lower(s) ==
    [i \in 1..Len(s) |-> IF s[i] \in DOMAIN UpperCase THEN UpperCase[s[i]] ELSE s[i]]

\* s.replace(' ', '_')
ReplaceSpaces(s) == [i \in 1..Len(s) |-> IF s[i] = " " THEN "_" ELSE s[i]]

\* Python's `c in n` on strings: c occurs in n as a contiguous substring
IsIn(c, n) ==
    \E i \in 0..(Len(n) - Len(c)) : SubSeq(n, i + 1, i + Len(c)) = c

----------------------------------------------------------------------------
(* The table resolver, lines 372-380 *)

\* lower_names = [n.lower() for n in table_names]
lower_names(table_names) == [i \in 1..Len(table_names) |-> Lower(table_names[i])]

\* The inner loop of get_table for one candidate, from index i on: the first
\* table whose lowercased name contains cand, or None.
RECURSIVE ScanTables(_, _, _)
ScanTables(cand, table_names, i) ==
    IF i > Len(table_names) THEN None
    ELSE IF IsIn(cand, lower_names(table_names)[i]) THEN table_names[i]
    ELSE ScanTables(cand, table_names, i + 1)

\* The outer loop of get_table, from candidate k on.
RECURSIVE ScanCandidates(_, _, _)
ScanCandidates(candidates, table_names, k) ==
    IF k > Len(candidates) THEN None
    ELSE LET hit == ScanTables(candidates[k], table_names, 1)
         IN IF hit # None THEN hit
            ELSE ScanCandidates(candidates, table_names, k + 1)

\* A resolver that scans table-major (the loops swapped): the first table in
\* load order that contains any candidate.
RECURSIVE ScanTableMajor(_, _, _)
ScanTableMajor(candidates, table_names, i) ==
    IF i > Len(table_names) THEN None
    ELSE IF \E k \in 1..Len(candidates) :
                IsIn(candidates[k], lower_names(table_names)[i])
         THEN table_names[i]
         ELSE ScanTableMajor(candidates, table_names, i + 1)

get_table_table_major(candidates, table_names) ==
    ScanTableMajor(candidates, table_names, 1)

\* get_table(candidates), with the table_names it closes over
get_table(candidates, table_names) == ScanCandidates(candidates, table_names, 1)

----------------------------------------------------------------------------
(* Tables (pandas DataFrames)                                              *)
(*                                                                         *)
(* A DataFrame is [canon, cols]: cols is the ordered list of columns, each *)
(* [name, dtype, vals]; canon tells whether the columns are those the      *)
(* dashboard and catalog SQL expects of the table (amount, payment_date,   *)
(* first_name, ...), so that a query over it binds.                        *)
(* Cells: in an object column "d" is a string that parses as a date, "x"   *)
(* a string that does not, "null" is NaN; in a datetime64 column "ts" is a *)
(* timestamp and "null" is NaT; in a numeric column "n" is a number.       *)

\* defaults of coerce_date_columns: sample_size = 2000, threshold = 0.6 = 6/10
sample_size == 2000
threshold_num == 6
threshold_den == 10

\* Series.dropna(): the non-null values, in stored order
RECURSIVE dropna(_)
dropna(vals) ==
    IF vals = <<>> THEN <<>>
    ELSE IF Head(vals) = "null" THEN dropna(Tail(vals))
    ELSE <<Head(vals)>> \o dropna(Tail(vals))

\* Series.head(n)
head(vals, n) == SubSeq(vals, 1, IF Len(vals) < n THEN Len(vals) ELSE n)

\* astype(str) of one non-null cell: a timestamp prints as a date string,
\* a number "y" (2005, say) as a string that parses as a date, a number "n"
\* (4.99, say) as a string that does not
astype_str(v) == IF v \in {"ts", "y"} THEN "d" ELSE v

\* pd.to_datetime(..., errors='coerce') on one sampled string: a timestamp,
\* or NaT when the string does not parse
parse_sample(s) == IF s = "d" THEN "ts" ELSE "null"

\* A conversion that reads strings only: a cell that is no parseable string
\* (a timestamp included) becomes null.
to_datetime_cell_strings(v) == IF v = "d" THEN "ts" ELSE "null"

\* pd.to_datetime(df[col], errors='coerce') on one cell of the column itself
to_datetime_cell(v) ==
    CASE v = "d" -> "ts"
      [] v = "ts" -> "ts"
      [] v = "n" -> "ts"       \* a number is read as an epoch offset
      [] v = "y" -> "ts"
      [] OTHER -> "null"

\* parsed.notna().sum()
CountParsed(sample) ==
    Cardinality({i \in 1..Len(sample) : parse_sample(sample[i]) # "null"})

\* An eligibility test that lets every column through.
EligibleAny(col) == TRUE

\* line 53: 'date' in col_low or df[col].dtype == object
Eligible(col) == IsIn(n_date, Lower(col.name)) \/ col.dtype = "object"

\* line 54: df[col].dropna().astype(str).head(sample_size)
SampleOf(col) ==
    LET nn == dropna(col.vals)
    IN head([i \in 1..Len(nn) |-> astype_str(nn[i])], sample_size)

\* A promotion test with a strict comparison (success_rate > threshold).
PromotesStrict(sample) ==
    CountParsed(sample) * threshold_den > threshold_num * Len(sample)

\* lines 58-59: success_rate = parsed.notna().sum() / len(parsed);
\* success_rate >= threshold.  The float comparison k/n >= 0.6 agrees with
\* the exact one for every n <= sample_size: the double 0.6 lies within one
\* ulp of 3/5 while two distinct fractions with denominators <= 2000 differ
\* by more than 1e-7.
Promotes(sample) ==
    CountParsed(sample) * threshold_den >= threshold_num * Len(sample)

\* A promotion of the parseable rows only: the other rows keep their value
\* and the column its type.
coerce_column_rowwise(col) ==
    IF ~Eligible(col) THEN col
    ELSE LET sample == SampleOf(col)
         IN IF sample = <<>> THEN col
            ELSE IF Promotes(sample)
                 THEN [col EXCEPT !.vals = [i \in 1..Len(col.vals) |->
                                               IF to_datetime_cell(col.vals[i]) = "null"
                                               THEN col.vals[i]
                                               ELSE "ts"]]
                 ELSE col

\* lines 53-60 for one column
coerce_column(col) ==
    IF ~Eligible(col) THEN col
    ELSE LET sample == SampleOf(col)
         IN IF sample = <<>> THEN col
            ELSE IF Promotes(sample)
                 THEN [col EXCEPT !.dtype = "datetime64",
                                  !.vals = [i \in 1..Len(col.vals) |->
                                               to_datetime_cell(col.vals[i])]]
                 ELSE col

\* lines 49-61 for one table
coerce_table(df) ==
    [df EXCEPT !.cols = [i \in 1..Len(df.cols) |-> coerce_column(df.cols[i])]]

\* coerce_date_columns(dfs): same keys in the same order, each table coerced
coerce_date_columns(d) ==
    [i \in 1..Len(d) |-> [key |-> d[i].key, df |-> coerce_table(d[i].df)]]

\* The same function over frame objects.  A heap is the sequence of the
\* frame objects that exist, a table set a sequence of [key, ref] with ref an
\* index of the heap.

\* A "copy" that hands back the frame object itself.
alias_frame(heap, ref) == [heap |-> heap, ref |-> ref]

\* line 50: df = df.copy(): a new frame object with the same columns
copy_frame(heap, ref) == [heap |-> Append(heap, heap[ref]), ref |-> Len(heap) + 1]

\* lines 49-61: each frame is copied, the columns of the copy are assigned
\* (line 60) and the copy is stored under the same key (line 61)
RECURSIVE coerce_loop(_, _, _)
coerce_loop(heap, d, coerced) ==
    IF d = <<>> THEN [heap |-> heap, coerced |-> coerced]
    ELSE LET c == copy_frame(heap, Head(d).ref)
             assigned == [c.heap EXCEPT ![c.ref] = coerce_table(c.heap[c.ref])]
         IN coerce_loop(assigned, Tail(d),
                        Append(coerced, [key |-> Head(d).key, ref |-> c.ref]))

\* lines 47-62 over frame objects: the heap after the call and the dict
\* returned
coerce_date_columns_refs(heap, d) == coerce_loop(heap, d, <<>>)

\* the table set a dict of references denotes
Deref(heap, d) == [i \in 1..Len(d) |-> [key |-> d[i].key, df |-> heap[d[i].ref]]]

----------------------------------------------------------------------------
(* The DuckDB store, lines 65-78 *)

NoCon == [open |-> FALSE, tables |-> <<>>]

\* line 68: name.lower().replace(' ', '_')
table_name_of(name) == ReplaceSpaces(Lower(name))

\* con.register for each item of dfs in order; a later registration under
\* the same name replaces the earlier one
RECURSIVE RegisterAll(_, _)
RegisterAll(d, tables) ==
    IF d = <<>> THEN tables
    ELSE RegisterAll(Tail(d), (table_name_of(Head(d).key) :> Head(d).df) @@ tables)

create_duckdb_connection(d) == [open |-> TRUE, tables |-> RegisterAll(d, <<>>)]

\* An SQL text is [kind, refs, canon, creates]: kind "select" or "create"
\* for a well-formed statement, "malformed" for text that does not parse,
\* "typeerror" for a statement that parses and fails in the binder on a
\* type; refs are the relation names it reads, as written; canon tells
\* whether it uses the canonical columns of those relations; creates is
\* the relation a "create" statement adds.

\* DuckDB finds a relation by its name ignoring case
Registered(c, r) == Lower(r) \in DOMAIN c.tables

Binds(c, sql) ==
    /\ c.open
    /\ sql.kind \in {"select", "create"}
    /\ \A r \in sql.refs : Registered(c, r) /\ (sql.canon => c.tables[Lower(r)].canon)
    /\ sql.kind = "create" => ~Registered(c, sql.creates)

\* number of rows of a frame
NRows(df) == IF df.cols = <<>> THEN 0 ELSE Len(df.cols[1].vals)

\* con.execute(sql).df(): [raised, con, rows, empty].  A statement that fails
\* changes nothing; a CREATE TABLE t AS SELECT * FROM r that succeeds adds t.
\* rows stands for the result frame: the relations read with their contents;
\* the frame has no row when a relation that is read has none.
con_execute(c, sql) ==
    IF ~Binds(c, sql) THEN [raised |-> TRUE, con |-> c, rows |-> {}, empty |-> TRUE]
    ELSE [raised |-> FALSE,
          con |-> IF sql.kind = "create"
                  THEN [c EXCEPT !.tables =
                           (Lower(sql.creates) :>
                               c.tables[Lower(CHOOSE r \in sql.refs : TRUE)])
                           @@ c.tables]
                  ELSE c,
          rows |-> {<<Lower(r), c.tables[Lower(r)]>> : r \in sql.refs},
          empty |-> IF sql.kind = "create" THEN FALSE
                    ELSE \E r \in sql.refs : NRows(c.tables[Lower(r)]) = 0]

\* An execution failure that is not caught: the exception leaves run_sql.
run_sql_uncaught(c, sql) ==
    LET r == con_execute(c, sql)
    IN [sql |-> sql, raised |-> r.raised, error |-> FALSE,
        empty |-> r.empty, rows |-> r.rows, con |-> r.con]

\* A failure handler that also drops the connection.
run_sql_closing(c, sql) ==
    LET r == con_execute(c, sql)
    IN IF r.raised
       THEN [sql |-> sql, raised |-> FALSE, error |-> TRUE,
             empty |-> TRUE, rows |-> {}, con |-> NoCon]
       ELSE [sql |-> sql, raised |-> FALSE, error |-> FALSE,
             empty |-> r.empty, rows |-> r.rows, con |-> r.con]

\* run_sql(con, sql), lines 73-78: the result frame, or on any exception
\* st.error and an empty frame (pd.DataFrame()); the record also carries
\* the store as the call leaves it
run_sql(c, sql) ==
    LET r == con_execute(c, sql)
    IN IF r.raised
       THEN [sql |-> sql, raised |-> FALSE, error |-> TRUE,
             empty |-> TRUE, rows |-> {}, con |-> r.con]
       ELSE [sql |-> sql, raised |-> FALSE, error |-> FALSE,
             empty |-> r.empty, rows |-> r.rows, con |-> r.con]

----------------------------------------------------------------------------
(* Bounded input sets *)

RECURSIVE SeqsUpTo(_, _)
\* all sequences over S of length at most n
SeqsUpTo(S, n) ==
    IF n = 0 THEN {<<>>}
    ELSE LET shorter == SeqsUpTo(S, n - 1)
         IN shorter \cup {Append(s, x) : s \in shorter, x \in S}

NoDuplicates(s) == \A i, j \in 1..Len(s) : i # j => s[i] # s[j]

----------------------------------------------------------------------------
(* Files, directories and the cached loader, lines 33-44 *)

MaxFiles == 2       \* files of a directory listing drawn from FileUniverse

T_payment ==
    [canon |-> TRUE,
     cols |-> << [name |-> c_payment_date, dtype |-> "object", vals |-> <<"d", "d", "x">>],
                 [name |-> c_amount, dtype |-> "float64", vals |-> <<"n", "n", "n">>] >>]

\* an old customer export: other columns than the queries expect
T_customer_old ==
    [canon |-> FALSE,
     cols |-> << [name |-> c_first_name, dtype |-> "object", vals |-> <<"x", "x">>],
                 [name |-> c_last_update, dtype |-> "object", vals |-> <<"d", "x">>] >>]

\* a table of the canonical data set
T_canonical ==
    [canon |-> TRUE,
     cols |-> << [name |-> c_last_update, dtype |-> "object", vals |-> <<"d", "d">>] >>]

T_none == [canon |-> FALSE, cols |-> <<>>]

\* A file is [base, ext, strict, permissive, df]: strict tells whether
\* pd.read_csv(f, low_memory=False) succeeds, permissive whether
\* pd.read_csv(f, engine="python") does, df is the frame read.
CsvFile(base, df) ==
    [base |-> base, ext |-> "csv", strict |-> TRUE, permissive |-> TRUE, df |-> df]

f_payment == CsvFile(n_payment, T_payment)
f_customer_old == [CsvFile(n_customer_old, T_customer_old) EXCEPT !.strict = FALSE]
f_broken ==
    [base |-> n_broken, ext |-> "csv", strict |-> FALSE, permissive |-> FALSE, df |-> T_none]
f_notes ==
    [base |-> n_notes, ext |-> "txt", strict |-> TRUE, permissive |-> TRUE, df |-> T_none]

FileUniverse == {f_payment, f_customer_old, f_broken, f_notes}

\* files whose base names hold a space or an upper-case letter, and files
\* whose base names differ from those only by the space or the letter case
f_Customer_Data == CsvFile(n_Customer_Data, T_canonical)
f_customer_data == CsvFile(n_customer_data, T_customer_old)
f_Payment == CsvFile(n_Payment, T_canonical)

NamedListings ==
    { <<f_Customer_Data>>, <<f_Customer_Data, f_customer_data>>,
      <<f_Payment>>, <<f_Payment, f_payment>> }

\* the canonical DVD-rental files, in alphabetical enumeration order
CanonicalListing ==
    << CsvFile(n_actor, T_canonical), CsvFile(n_category, T_canonical),
       CsvFile(n_customer, T_canonical), CsvFile(n_film, T_canonical),
       CsvFile(n_film_actor, T_canonical), CsvFile(n_film_category, T_canonical),
       CsvFile(n_inventory, T_canonical), CsvFile(n_payment, T_payment),
       CsvFile(n_rental, T_canonical), CsvFile(n_staff, T_canonical),
       CsvFile(n_store, T_canonical) >>

\* A listing is the directory's files in the order the OS enumerates them.
Listings ==
    {s \in SeqsUpTo(FileUniverse, MaxFiles) : NoDuplicates(s)}
        \cup {CanonicalListing} \cup NamedListings

NoDir == [isdir |-> FALSE, files |-> <<>>]
Dir(files) == [isdir |-> TRUE, files |-> files]

DataPath == "./data"
MissingPath == "./missing"
ExportPath == "./data/exported_tables"
NestedExportPath == "./data/exported_tables/exported_tables"

\* os.path.join(folder, 'exported_tables')
export_dir(path) ==
    CASE path = DataPath -> ExportPath
      [] path = ExportPath -> NestedExportPath
      [] OTHER -> "./missing/exported_tables"

\* the paths the sidebar text input is given
FolderInputs == {DataPath, MissingPath}

\* os.path.isdir
isdir(dk, path) == path \in DOMAIN dk /\ dk[path].isdir

\* glob.glob(os.path.join(folder_path, "*.csv")): non-recursive, by extension
glob_csv(dk, path) ==
    IF isdir(dk, path)
    THEN SelectSeq(dk[path].files, LAMBDA f : f.ext = "csv")
    ELSE <<>>

\* dfs[key] = df on an insertion-ordered dict
DictSet(d, key, df) ==
    IF \E i \in 1..Len(d) : d[i].key = key
    THEN [i \in 1..Len(d) |-> IF d[i].key = key THEN [key |-> key, df |-> df] ELSE d[i]]
    ELSE Append(d, [key |-> key, df |-> df])

\* A loader that drops a file neither parser reads and goes on.
RECURSIVE LoadFilesSkipping(_, _)
LoadFilesSkipping(files, d) ==
    IF files = <<>> THEN [raised |-> FALSE, dfs |-> d]
    ELSE LET f == Head(files)
         IN IF ~f.strict /\ ~f.permissive
            THEN LoadFilesSkipping(Tail(files), d)
            ELSE LoadFilesSkipping(Tail(files), DictSet(d, f.base, f.df))

\* lines 37-43: the strict read, on failure the python-engine read; when
\* that fails too its exception leaves the loop and the function
RECURSIVE LoadFiles(_, _)
LoadFiles(files, d) ==
    IF files = <<>> THEN [raised |-> FALSE, dfs |-> d]
    ELSE LET f == Head(files)
         IN IF ~f.strict /\ ~f.permissive
            THEN [raised |-> TRUE, dfs |-> <<>>]
            ELSE LoadFiles(Tail(files), DictSet(d, f.base, f.df))

\* the body of load_csvs_from_folder, lines 35-44
load_body(dk, path) == LoadFiles(glob_csv(dk, path), <<>>)

NoEntry == [hit |-> FALSE, value |-> <<>>]

\* @st.cache_data, line 33: the result stored for the argument is returned
\* without running the body; a result that returns is stored, an exception
\* is not.  [raised, dfs, cache, from_cache]
load_csvs_from_folder(ch, dk, path) ==
    IF ch[path].hit
    THEN [raised |-> FALSE, dfs |-> ch[path].value, cache |-> ch, from_cache |-> TRUE]
    ELSE LET r == load_body(dk, path)
         IN [raised |-> r.raised, dfs |-> r.dfs, from_cache |-> FALSE,
             cache |-> IF r.raised THEN ch
                       ELSE [ch EXCEPT ![path] = [hit |-> TRUE, value |-> r.dfs]]]

\* line 100
folder_has_csvs(dk, path) == isdir(dk, path) /\ Len(glob_csv(dk, path)) > 0

\* line 102
should_auto_load(dk, path, load_button) == folder_has_csvs(dk, path) /\ ~load_button

----------------------------------------------------------------------------
(* CSV export, lines 638-643 *)

\* df.to_csv(..., index=False) followed by what read_csv makes of the text:
\* a timestamp is written as a date string, NaT and NaN as an empty field
csv_column(col) ==
    IF col.dtype = "datetime64"
    THEN [col EXCEPT !.dtype = "object",
                     !.vals = [i \in 1..Len(col.vals) |->
                                  IF col.vals[i] = "ts" THEN "d" ELSE "null"]]
    ELSE col

csv_of(df) == [df EXCEPT !.cols = [i \in 1..Len(df.cols) |-> csv_column(df.cols[i])]]

\* writing one file into a listing: a file of that name is overwritten
WriteFile(files, f) ==
    IF \E i \in 1..Len(files) : files[i].base = f.base /\ files[i].ext = f.ext
    THEN [i \in 1..Len(files) |->
             IF files[i].base = f.base /\ files[i].ext = f.ext THEN f ELSE files[i]]
    ELSE Append(files, f)

RECURSIVE WriteAll(_, _)
WriteAll(files, d) ==
    IF d = <<>> THEN files
    ELSE WriteAll(WriteFile(files, CsvFile(Head(d).key, csv_of(Head(d).df))), Tail(d))

\* os.makedirs(export_dir, exist_ok=True), then one to_csv per table
export_tables(dk, path, d) ==
    LET dir == export_dir(path)
        old == IF isdir(dk, dir) THEN dk[dir].files ELSE <<>>
    IN [dk EXCEPT ![dir] = Dir(WriteAll(old, d))]

----------------------------------------------------------------------------
(* The dashboard tabs, lines 411-580 *)

\* truthiness of a get_table result: None and '' are false
Truthy(x) == x # None /\ x # <<>>

\* an f-string query over the quoted relation names refs
Select(refs) == [kind |-> "select", refs |-> refs, canon |-> TRUE, creates |-> None]

\* the roles each tab resolves, lines 422-550
Roles(names) ==
    [payment |-> get_table(<<n_payment>>, names),
     customer |-> get_table(<<n_customer>>, names),
     rental |-> get_table(<<n_rental>>, names),
     staff |-> get_table(<<n_staff>>, names),
     store |-> get_table(<<n_store>>, names),
     film |-> get_table(<<n_film>>, names),
     film_category |->
         get_table(<<n_film_category, n_filmcategory, n_film_dash_category>>, names),
     category |-> get_table(<<n_category>>, names),
     inventory |-> get_table(<<n_inventory>>, names),
     actor |-> get_table(<<n_actor>>, names),
     film_actor |-> get_table(<<n_film_actor, n_filmactor>>, names)]

\* the candidate list of each role
RoleCands ==
    [payment |-> <<n_payment>>, customer |-> <<n_customer>>, rental |-> <<n_rental>>,
     staff |-> <<n_staff>>, store |-> <<n_store>>, film |-> <<n_film>>,
     film_category |-> <<n_film_category, n_filmcategory, n_film_dash_category>>,
     category |-> <<n_category>>, inventory |-> <<n_inventory>>, actor |-> <<n_actor>>,
     film_actor |-> <<n_film_actor, n_filmactor>>]

\* the guards around each query
G_metrics(r) == Truthy(r.payment)                                       \* line 423
\* a Customers guard that asks for either table instead of both
G_customers_either(r) == Truthy(r.customer) \/ Truthy(r.payment)
G_customers(r) == Truthy(r.customer) /\ Truthy(r.payment)               \* line 438
G_month(r) == Truthy(r.rental) /\ Truthy(r.staff) /\ Truthy(r.store)    \* line 464
G_quart(r) == Truthy(r.film) /\ Truthy(r.film_category) /\ Truthy(r.category)  \* 486
G_family(r) == G_quart(r) /\ Truthy(r.inventory) /\ Truthy(r.rental)    \* line 495
G_rev(r) == Truthy(r.payment)                                           \* line 508
G_cat(r) ==                                                             \* line 524
    /\ Truthy(r.payment) /\ Truthy(r.film) /\ Truthy(r.film_category)
    /\ Truthy(r.category) /\ Truthy(r.inventory) /\ Truthy(r.rental)
G_late(r) ==                                                            \* line 536
    Truthy(r.rental) /\ Truthy(r.payment) /\ Truthy(r.film) /\ Truthy(r.inventory)
G_actor(r) ==                                                           \* line 551
    /\ Truthy(r.actor) /\ Truthy(r.film_actor) /\ Truthy(r.inventory)
    /\ Truthy(r.rental) /\ Truthy(r.payment) /\ Truthy(r.film)
    /\ Truthy(r.film_category) /\ Truthy(r.category)
G_avail(r) == Truthy(r.film) /\ Truthy(r.inventory) /\ Truthy(r.rental) \* line 574

\* the relations each f-string names
q_metrics(r) == Select({r.payment})                                     \* line 424
q_customers(r) == Select({r.payment, r.customer})                       \* line 439
q_month(r) == Select({r.rental, r.staff, r.store})                      \* line 465
q_quart(r) == Select({r.film, r.film_category, r.category})             \* line 487
q_family(r) ==                                                          \* line 496
    Select({r.film, r.film_category, r.category, r.inventory, r.rental})
q_rev(r) == Select({r.payment})                                         \* line 509
q_cat(r) ==                                                             \* line 527
    Select({r.category, r.film_category, r.film, r.inventory, r.rental, r.payment})
q_late(r) == Select({r.rental, r.payment, r.inventory, r.film})         \* line 538
q_actor(r) ==                                                           \* line 552
    Select({r.actor, r.film_actor, r.film, r.inventory, r.rental, r.payment})
q_sankey(r) ==                                                          \* line 558
    Select({r.actor, r.film_actor, r.film, r.film_category, r.category,
            r.inventory, r.rental, r.payment})
q_avail(r) == Select({r.film, r.inventory, r.rental})                   \* line 575

Step(src, guard, sql, dep) ==
    IF guard THEN <<[src |-> src, sql |-> sql, dep |-> dep]>> ELSE <<>>

\* the run_sql calls of the six tabs in script order; dep marks the call
\* made only when the frame of the call before it is not empty (line 555)
DashboardPlan(r) ==
    Step("q_metrics", G_metrics(r), q_metrics(r), FALSE)
    \o Step("q_customers", G_customers(r), q_customers(r), FALSE)
    \o Step("q_month", G_month(r), q_month(r), FALSE)
    \o Step("q_quart", G_quart(r), q_quart(r), FALSE)
    \o Step("q_family", G_family(r), q_family(r), FALSE)
    \o Step("q_rev", G_rev(r), q_rev(r), FALSE)
    \o Step("q_cat", G_cat(r), q_cat(r), FALSE)
    \o Step("q_late", G_late(r), q_late(r), FALSE)
    \o Step("q_actor", G_actor(r), q_actor(r), FALSE)
    \o Step("q_sankey", G_actor(r), q_sankey(r), TRUE)
    \o Step("q_avail", G_avail(r), q_avail(r), FALSE)

DashboardSources ==
    {"q_metrics", "q_customers", "q_month", "q_quart", "q_family", "q_rev", "q_cat",
     "q_late", "q_actor", "q_sankey", "q_avail"}

CallOf(src, res) ==
    [src |-> src, sql |-> res.sql, raised |-> res.raised, error |-> res.error,
     empty |-> res.empty, rows |-> res.rows, names |-> DOMAIN res.con.tables]

\* runs the steps in order on the connection; an exception that leaves
\* run_sql ends the script run.  [con, calls]
RECURSIVE RunPlan(_, _, _)
RunPlan(plan, c, done) ==
    IF plan = <<>> THEN [con |-> c, calls |-> done]
    ELSE LET st == Head(plan)
         IN IF st.dep /\ (done = <<>> \/ done[Len(done)].empty)
            THEN RunPlan(Tail(plan), c, done)
            ELSE LET res == run_sql(c, st.sql)
                 IN IF res.raised
                    THEN [con |-> res.con, calls |-> Append(done, CallOf(st.src, res))]
                    ELSE RunPlan(Tail(plan), res.con, Append(done, CallOf(st.src, res)))

Raised(cs) == cs # <<>> /\ cs[Len(cs)].raised

----------------------------------------------------------------------------
(* The saved queries, lines 105-352, and the Advanced tab, lines 583-609 *)

\* a catalog text over the canonical relation names refs
Catalog(refs) == [kind |-> "select", refs |-> refs, canon |-> TRUE, creates |-> None]

\* SAVED_QUERIES in order; 22 calls FIELD(), which DuckDB does not have
SAVED_QUERIES ==
    <<
        Catalog({n_customer, n_payment}),
        Catalog({n_rental, n_staff, n_store}),
        Catalog({n_film, n_film_category, n_category}),
        Catalog({n_customer, n_payment}),
        Catalog({n_film, n_film_category, n_category, n_inventory, n_rental}),
        Catalog({n_rental, n_staff}),
        Catalog({n_film, n_film_category, n_category, n_inventory, n_rental}),
        Catalog({n_category, n_film_category, n_film, n_inventory, n_rental, n_payment}),
        Catalog({n_customer, n_rental, n_payment}),
        Catalog({n_film, n_inventory, n_rental}),
        Catalog({n_city, n_address, n_customer, n_rental, n_payment}),
        Catalog({n_customer, n_rental}),
        Catalog({n_payment}),
        Catalog({n_store, n_staff, n_rental}),
        Catalog({n_customer, n_rental, n_payment}),
        Catalog({n_customer, n_rental}),
        Catalog({n_payment}),
        Catalog({n_payment, n_rental, n_inventory, n_film, n_film_category, n_category}),
        Catalog({n_rental}),
        Catalog({n_rental, n_payment, n_inventory, n_film}),
        Catalog({n_rental, n_inventory, n_film, n_film_category, n_category}),
        [Catalog({n_rental}) EXCEPT !.kind = "typeerror"],
        Catalog({n_payment, n_rental, n_inventory, n_store, n_address, n_city}),
        Catalog({n_actor, n_film_actor, n_film, n_inventory, n_rental, n_payment}),
        Catalog({n_film, n_inventory, n_rental})
    >>

\* A catalog in which the canonical names are replaced by the resolved ones.
RewriteName(n, r) ==
    LET hit == {f \in DOMAIN RoleCands : RoleCands[f][1] = n}
    IN IF hit = {} THEN n
       ELSE LET v == r[CHOOSE f \in hit : TRUE] IN IF v = None THEN n ELSE v

saved_sql_rewritten(k, r) ==
    [SAVED_QUERIES[k] EXCEPT !.refs = {RewriteName(n, r) : n \in SAVED_QUERIES[k].refs}]

\* lines 597-599: q = SAVED_QUERIES[name]; run_sql(con, q)
saved_sql(k, r) == SAVED_QUERIES[k]

n_t == <<"t">>
n_nope == <<"n", "o", "p", "e">>

\* texts typed into the SQL box
Blank == [kind |-> "blank", refs |-> {}, canon |-> FALSE, creates |-> None]
AdhocTexts ==
    { Blank,
      [kind |-> "malformed", refs |-> {}, canon |-> FALSE, creates |-> None],
      [kind |-> "typeerror", refs |-> {n_payment}, canon |-> FALSE, creates |-> None],
      [kind |-> "select", refs |-> {n_payment}, canon |-> FALSE, creates |-> None],
      [kind |-> "select", refs |-> {n_nope}, canon |-> FALSE, creates |-> None],
      [kind |-> "create", refs |-> {n_payment}, canon |-> FALSE, creates |-> n_t] }

NoAdv == [saved |-> 0, text |-> Blank]

\* the run_sql call of the Advanced tab, if a button there was pressed
AdvancedPlan(btn, a, r) ==
    IF btn = "saved"
    THEN <<[src |-> "saved", sql |-> saved_sql(a.saved, r), dep |-> FALSE]>>
    ELSE IF btn = "run_sql" /\ a.text.kind # "blank"       \* line 605
    THEN <<[src |-> "adhoc", sql |-> a.text, dep |-> FALSE]>>
    ELSE <<>>

rsIdle == [tables |-> <<>>, cands |-> <<>>, done |-> FALSE, out |-> None]
coIdle == [dfs |-> <<>>, out |-> <<>>, done |-> FALSE]

----------------------------------------------------------------------------
(* The script runs, lines 88-102 and 355-652 *)

AllPaths == {DataPath, MissingPath, ExportPath, NestedExportPath, export_dir(MissingPath)}

DataDirStates == {Dir(l) : l \in Listings} \cup {NoDir}

NoLoad == [called |-> FALSE, raised |-> FALSE, from_cache |-> FALSE, dfs |-> <<>>]
NoRoles == Roles(<<>>)

\* list(dfs.keys())
Keys(d) == [i \in 1..Len(d) |-> d[i].key]

\* The first run of a fresh server on some state of ./data, with the
\* widgets at their defaults (lines 90-95).
Init ==
    /\ \E d \in DataDirStates :
          disk = [p \in AllPaths |-> IF p = DataPath THEN d ELSE NoDir]
    /\ cache = [p \in FolderInputs |-> NoEntry]
    /\ folder = DataPath
    /\ pressed = "none"
    /\ auto_coerce_dates = TRUE
    /\ adv = NoAdv
    /\ pc = "start"
    /\ msgs = <<>>
    /\ dfs = <<>>
    /\ con = NoCon
    /\ calls = <<>>
    /\ ops = {}
    /\ loaded = NoLoad
    /\ resolved = NoRoles
    /\ rs = rsIdle
    /\ co = coIdle

\* the last run drew the tabs and the export button
DrewDashboard == pc = "done" /\ msgs = <<"Ready">>

\* A widget interaction starts a new script run: every script variable is
\* fresh, the cache and the disk stay.  One widget changes per interaction;
\* the buttons of the tabs and the export button exist only when the last
\* run drew them.
RerunOver(inputs) ==
    /\ \E f \in inputs, ac \in BOOLEAN,
          b \in {"none", "load", "saved", "run_sql", "export"} :
          /\ b = "none" => (f = folder \/ ac = auto_coerce_dates)
          /\ b # "none" => (f = folder /\ ac = auto_coerce_dates)
          /\ b \in {"saved", "run_sql", "export"} => DrewDashboard
          /\ folder' = f
          /\ auto_coerce_dates' = ac
          /\ pressed' = b
    /\ adv' = NoAdv
    /\ pc' = "start"
    /\ msgs' = <<>>
    /\ dfs' = <<>>
    /\ con' = NoCon
    /\ calls' = <<>>
    /\ ops' = {}
    /\ loaded' = NoLoad
    /\ resolved' = NoRoles
    /\ UNCHANGED <<disk, cache, rs, co>>

\* the folder text is one of FolderInputs
Rerun ==
    /\ pc = "done"
    /\ RerunOver(FolderInputs)

\* line 355: if load_button or should_auto_load
LoadTriggered ==
    pressed = "load" \/ should_auto_load(disk, folder, pressed = "load")

EnterLoad ==
    /\ pc = "start"
    /\ LoadTriggered
    /\ pc' = "loading"
    /\ UNCHANGED <<disk, cache, folder, pressed, auto_coerce_dates, adv, msgs, dfs,
                   con, calls, ops, loaded, resolved, rs, co>>

\* lines 647-652: the starter page
StayIdle ==
    /\ pc = "start"
    /\ ~LoadTriggered
    /\ msgs' = <<"Starter">>
    /\ pc' = "done"
    /\ UNCHANGED <<disk, cache, folder, pressed, auto_coerce_dates, adv, dfs,
                   con, calls, ops, loaded, resolved, rs, co>>

\* lines 356-358: st.sidebar.error, st.stop()
PathInvalid ==
    /\ pc = "loading"
    /\ ~isdir(disk, folder)
    /\ msgs' = <<"PathInvalid">>
    /\ pc' = "done"
    /\ UNCHANGED <<disk, cache, folder, pressed, auto_coerce_dates, adv, dfs,
                   con, calls, ops, loaded, resolved, rs, co>>

LoadResult == load_csvs_from_folder(cache, disk, folder)

LoadRecord(r) ==
    [called |-> TRUE, raised |-> r.raised, from_cache |-> r.from_cache, dfs |-> r.dfs]

\* line 361 when a read_csv exception leaves load_csvs_from_folder: nothing
\* in the script catches it, the run ends with the exception shown
LoadRaises ==
    /\ pc = "loading"
    /\ isdir(disk, folder)
    /\ LoadResult.raised
    /\ loaded' = LoadRecord(LoadResult)
    /\ cache' = LoadResult.cache
    /\ msgs' = <<"Exception">>
    /\ pc' = "done"
    /\ UNCHANGED <<disk, folder, pressed, auto_coerce_dates, adv, dfs,
                   con, calls, ops, resolved, rs, co>>

\* lines 361-364: st.sidebar.warning, st.stop()
LoadEmpty ==
    /\ pc = "loading"
    /\ isdir(disk, folder)
    /\ ~LoadResult.raised
    /\ Len(LoadResult.dfs) = 0
    /\ loaded' = LoadRecord(LoadResult)
    /\ cache' = LoadResult.cache
    /\ msgs' = <<"EmptyFolder">>
    /\ pc' = "done"
    /\ UNCHANGED <<disk, folder, pressed, auto_coerce_dates, adv, dfs,
                   con, calls, ops, resolved, rs, co>>

\* lines 361-369: coerce, create the connection, report the loaded tables
LoadReady ==
    /\ pc = "loading"
    /\ isdir(disk, folder)
    /\ ~LoadResult.raised
    /\ Len(LoadResult.dfs) # 0
    /\ loaded' = LoadRecord(LoadResult)
    /\ cache' = LoadResult.cache
    /\ dfs' = IF auto_coerce_dates THEN coerce_date_columns(LoadResult.dfs)
              ELSE LoadResult.dfs
    /\ con' = create_duckdb_connection(dfs')
    /\ ops' = (IF auto_coerce_dates THEN {"coerce"} ELSE {}) \cup {"register"}
    /\ msgs' = <<"Ready">>
    /\ pc' = "tabs"
    /\ UNCHANGED <<disk, folder, pressed, auto_coerce_dates, adv, calls, resolved, rs, co>>

\* lines 411-580: the six tabs resolve their roles and run the guarded queries
RenderTabs ==
    /\ pc = "tabs"
    /\ LET r == Roles(Keys(dfs))
           run == RunPlan(DashboardPlan(r), con, <<>>)
       IN /\ resolved' = r
          /\ calls' = run.calls
          /\ con' = run.con
          /\ ops' = ops \cup {"get_table"}
                        \cup (IF run.calls # <<>> THEN {"run_sql"} ELSE {})
          /\ pc' = IF Raised(run.calls) THEN "done" ELSE "advanced"
          /\ msgs' = IF Raised(run.calls) THEN Append(msgs, "Exception") ELSE msgs
    /\ UNCHANGED <<disk, cache, folder, pressed, auto_coerce_dates, adv, dfs, loaded,
                   rs, co>>

\* ends the run after the Advanced tab's call, if any
AdvancedRun(a) ==
    LET run == RunPlan(AdvancedPlan(pressed, a, resolved), con, calls)
    IN /\ adv' = a
       /\ calls' = run.calls
       /\ con' = run.con
       /\ ops' = ops \cup (IF Len(run.calls) > Len(calls)
                           THEN {IF pressed = "saved" THEN "saved_query" ELSE "adhoc"}
                           ELSE {})
       /\ pc' = "done"
       /\ msgs' = IF Raised(run.calls) THEN Append(msgs, "Exception") ELSE msgs

\* lines 587-600: the saved query whose button was pressed
SavedQuery ==
    /\ pc = "advanced"
    /\ pressed = "saved"
    /\ \E k \in 1..Len(SAVED_QUERIES) : AdvancedRun([saved |-> k, text |-> Blank])
    /\ UNCHANGED <<disk, cache, folder, pressed, auto_coerce_dates, dfs, loaded,
                   resolved, rs, co>>

\* lines 603-609: the text of the SQL box
AdhocSQL ==
    /\ pc = "advanced"
    /\ pressed = "run_sql"
    /\ \E x \in AdhocTexts : AdvancedRun([saved |-> 0, text |-> x])
    /\ UNCHANGED <<disk, cache, folder, pressed, auto_coerce_dates, dfs, loaded,
                   resolved, rs, co>>

\* lines 638-643: the export
Export ==
    /\ pc = "advanced"
    /\ pressed = "export"
    /\ disk' = export_tables(disk, folder, dfs)
    /\ ops' = ops \cup {"export"}
    /\ pc' = "done"
    /\ UNCHANGED <<cache, folder, pressed, auto_coerce_dates, adv, msgs, dfs, con,
                   calls, loaded, resolved, rs, co>>

\* line 645: no button of the dashboard was pressed
Finish ==
    /\ pc = "advanced"
    /\ pressed \in {"none", "load"}
    /\ pc' = "done"
    /\ UNCHANGED <<disk, cache, folder, pressed, auto_coerce_dates, adv, msgs, dfs, con,
                   calls, ops, loaded, resolved, rs, co>>

\* Before a run reads the directory the files of ./data may have changed;
\* removing the directory removes its exported_tables too.
FsChange ==
    /\ pc = "start"
    /\ \E d \in DataDirStates :
          /\ d # disk[DataPath]
          /\ disk' = [disk EXCEPT ![DataPath] = d,
                                  ![ExportPath] = IF d.isdir THEN @ ELSE NoDir,
                                  ![NestedExportPath] = IF d.isdir THEN @ ELSE NoDir]
    /\ UNCHANGED <<cache, folder, pressed, auto_coerce_dates, adv, pc, msgs, dfs, con,
                   calls, ops, loaded, resolved, rs, co>>

Next ==
    \/ Rerun
    \/ EnterLoad
    \/ StayIdle
    \/ PathInvalid
    \/ LoadRaises
    \/ LoadEmpty
    \/ LoadReady
    \/ RenderTabs
    \/ SavedQuery
    \/ AdhocSQL
    \/ Export
    \/ Finish
    \/ FsChange

Spec == Init /\ [][Next]_vars

----------------------------------------------------------------------------
(* The same script on a folder and its exported_tables subdirectory: the    *)
(* folder text is ./data or ./data/exported_tables, and the subdirectory    *)
(* may hold what an export of an earlier session left there.                *)

RoundTripInputs == {DataPath, ExportPath}

RoundTripListings ==
    { <<>>, <<f_payment>>, <<f_customer_old>>, <<f_broken>>, <<f_notes>>,
      <<f_payment, f_customer_old>>, <<f_Customer_Data>> }

\* files of an earlier export: a table that is no longer in ./data, and an
\* older payment table
f_rental_left == CsvFile(n_rental, T_canonical)
f_payment_left == CsvFile(n_payment, T_canonical)

LeftDirStates == {NoDir, Dir(<<f_rental_left>>), Dir(<<f_payment_left>>)}

InitRoundTrip ==
    /\ \E l \in RoundTripListings, e \in LeftDirStates :
          disk = [p \in AllPaths |->
                     CASE p = DataPath -> Dir(l)
                       [] p = ExportPath -> e
                       [] OTHER -> NoDir]
    /\ cache = [p \in RoundTripInputs |-> NoEntry]
    /\ folder = DataPath
    /\ pressed = "none"
    /\ auto_coerce_dates = TRUE
    /\ adv = NoAdv
    /\ pc = "start"
    /\ msgs = <<>>
    /\ dfs = <<>>
    /\ con = NoCon
    /\ calls = <<>>
    /\ ops = {}
    /\ loaded = NoLoad
    /\ resolved = NoRoles
    /\ rs = rsIdle
    /\ co = coIdle

\* the folder text is one of RoundTripInputs
RerunRoundTrip ==
    /\ pc = "done"
    /\ RerunOver(RoundTripInputs)

NextRoundTrip ==
    \/ RerunRoundTrip
    \/ EnterLoad
    \/ StayIdle
    \/ PathInvalid
    \/ LoadRaises
    \/ LoadEmpty
    \/ LoadReady
    \/ RenderTabs
    \/ SavedQuery
    \/ AdhocSQL
    \/ Export
    \/ Finish

SpecRoundTrip == InitRoundTrip /\ [][NextRoundTrip]_vars

----------------------------------------------------------------------------
(* Resolver harness: one get_table call on bounded inputs *)

\* Keys of loaded tables the harness draws from (dict keys are distinct)
ResolverNames ==
    {n_customer_old, n_customer_new, n_Customer_Data, n_payment, n_film_category}

\* Candidate substrings the harness draws from
ResolverCands == {n_customer, n_payment, n_category, n_film, n_actor}

ResolverTableLists == {s \in SeqsUpTo(ResolverNames, MaxTables) : NoDuplicates(s)}
ResolverCandLists == SeqsUpTo(ResolverCands, MaxCands)

appIdle ==
    /\ disk = <<>> /\ cache = <<>> /\ folder = "" /\ pressed = "none"
    /\ auto_coerce_dates = TRUE /\ adv = <<>> /\ pc = "off" /\ msgs = <<>>
    /\ dfs = <<>> /\ con = <<>> /\ calls = <<>> /\ ops = {} /\ loaded = <<>>
    /\ resolved = <<>>

InitResolve ==
    /\ appIdle
    /\ co = coIdle
    /\ \E t \in ResolverTableLists, c \in ResolverCandLists :
          rs = [tables |-> t, cands |-> c, done |-> FALSE, out |-> None]

Resolve ==
    /\ ~rs.done
    /\ rs' = [rs EXCEPT !.done = TRUE, !.out = get_table(rs.cands, rs.tables)]
    /\ UNCHANGED <<appVars, co>>

NextResolve == Resolve

SpecResolve == InitResolve /\ [][NextResolve]_vars

\* indexes of the tables whose lowercased name contains candidate c
MatchingTables(c, tables) ==
    {j \in 1..Len(tables) : IsIn(c, Lower(tables[j]))}

\* indexes of the candidates that match some table
MatchingCands(cands, tables) ==
    {k \in 1..Len(cands) : MatchingTables(cands[k], tables) # {}}

Min(S) == CHOOSE x \in S : \A y \in S : x <= y

\* C1: get_table returns the table found by the first candidate, in list order,
\* that is a substring of some lowercased table name, and for that candidate
\* the first such table in load order (candidate priority outranks load order);
\* with tables [customer_old, customer_new] and candidates [customer] the
\* result is customer_old.
C1_FirstMatchWins ==
    rs.done =>
        /\ MatchingCands(rs.cands, rs.tables) # {} =>
              LET k == Min(MatchingCands(rs.cands, rs.tables))
                  j == Min(MatchingTables(rs.cands[k], rs.tables))
              IN rs.out = rs.tables[j]
        /\ (rs.tables = <<n_customer_old, n_customer_new>> /\ rs.cands = <<n_customer>>)
              => rs.out = n_customer_old

\* a call where a later candidate matches a table loaded before the table the
\* winning, earlier candidate matches
C1_Witness ==
    /\ rs.done
    /\ rs.out # None
    /\ \E k1, k2 \in 1..Len(rs.cands), j1, j2 \in 1..Len(rs.tables) :
          /\ k1 < k2 /\ j2 < j1
          /\ rs.out = rs.tables[j1]
          /\ k1 = Min(MatchingCands(rs.cands, rs.tables))
          /\ j2 \in MatchingTables(rs.cands[k2], rs.tables)

----------------------------------------------------------------------------
(* Load-order harness: the roles of the tabs are resolved on the canonical  *)
(* tables, loaded in the orders glob.glob may enumerate the files in.       *)

CanonicalNames == Keys(LoadFiles(CanonicalListing, <<>>).dfs)

\* the list s with its i-th element moved to position j
Move(s, i, j) ==
    LET rest == SubSeq(s, 1, i - 1) \o SubSeq(s, i + 1, Len(s))
    IN SubSeq(rest, 1, j - 1) \o <<s[i]>> \o SubSeq(rest, j, Len(rest))

\* the orders that are k moves away from the alphabetical one
RECURSIVE LoadOrders(_)
LoadOrders(k) ==
    IF k = 0 THEN {CanonicalNames}
    ELSE LET nearer == LoadOrders(k - 1)
         IN nearer \cup {Move(s, i, j) : s \in nearer, i \in 1..Len(CanonicalNames),
                                         j \in 1..Len(CanonicalNames)}

InitOrder ==
    /\ appIdle
    /\ co = coIdle
    /\ \E s \in LoadOrders(MaxMoves) :
          rs = [tables |-> s, roles |-> NoRoles, done |-> FALSE]

\* lines 422-550: every get_table call of the tabs
ResolveRoles ==
    /\ ~rs.done
    /\ rs' = [rs EXCEPT !.roles = Roles(rs.tables), !.done = TRUE]
    /\ UNCHANGED <<appVars, co>>

NextOrder == ResolveRoles

SpecOrder == InitOrder /\ [][NextOrder]_vars

\* the table of the same name as each role
CanonicalRoles ==
    [payment |-> n_payment, customer |-> n_customer, rental |-> n_rental,
     staff |-> n_staff, store |-> n_store, film |-> n_film,
     film_category |-> n_film_category, category |-> n_category,
     inventory |-> n_inventory, actor |-> n_actor, film_actor |-> n_film_actor]

\* C17: with the canonical tables loaded under their canonical names, in
\* whatever order, every role resolves to the table of the same name.
C17_CanonicalRolesResolve ==
    rs.done => \A f \in DOMAIN CanonicalRoles : rs.roles[f] = CanonicalRoles[f]

----------------------------------------------------------------------------
(* Coercion harness: one coerce_date_columns call on a one-column table *)

Nulls(n) == [i \in 1..n |-> "null"]

\* columns of strings and nulls, under a name with and without "date"
HarnessColumns ==
    {[name |-> nm, dtype |-> "object", vals |-> Nulls(p) \o s \o Nulls(q)] :
        nm \in {c_amount, c_payment_date},
        p \in 0..MaxNulls, q \in 0..MaxNulls,
        s \in SeqsUpTo({"d", "x"}, MaxRows)}
    \cup
    {[name |-> nm, dtype |-> "float64", vals |-> [i \in 1..n |-> "n"]] :
        nm \in {c_amount}, n \in 0..MaxNulls}

InitCoerce ==
    /\ appIdle
    /\ rs = rsIdle
    /\ \E c \in HarnessColumns :
          co = [dfs |-> <<[key |-> n_payment, df |-> [canon |-> TRUE, cols |-> <<c>>]]>>,
                out |-> <<>>, done |-> FALSE]

Coerce ==
    /\ ~co.done
    /\ co' = [co EXCEPT !.done = TRUE, !.out = coerce_date_columns(co.dfs)]
    /\ UNCHANGED <<appVars, rs>>

NextCoerce == Coerce

SpecCoerce == InitCoerce /\ [][NextCoerce]_vars

\* the harness column before and after
ColIn == co.dfs[1].df.cols[1]
ColOut == co.out[1].df.cols[1]

\* the non-null values of the column (all of them are sampled: fewer than
\* sample_size) and those among them that parse as a date
SampledCount == Cardinality({i \in 1..Len(ColIn.vals) : ColIn.vals[i] # "null"})
ParseableCount == Cardinality({i \in 1..Len(ColIn.vals) : ColIn.vals[i] = "d"})

Promoted == ColIn.dtype = "object" /\ ColOut.dtype = "datetime64"

\* C10: an eligible column with a non-empty sample is promoted exactly when
\* parseable / sampled >= threshold (0.6): with 10 sampled non-null values,
\* 6 parseable ones promote the column and 5 do not.
C10_ThresholdBoundary ==
    (co.done /\ ColIn.dtype = "object" /\ SampledCount > 0) =>
        /\ Promoted <=> (ParseableCount * 10 >= 6 * SampledCount)
        /\ (SampledCount = 10 /\ ParseableCount = 6) => Promoted
        /\ (SampledCount = 10 /\ ParseableCount = 5) => ~Promoted

\* a column with nulls whose 10 sampled values hold exactly 6 parseable ones
\* has been promoted
C10_Witness ==
    /\ co.done
    /\ Len(ColIn.vals) > 10
    /\ SampledCount = 10
    /\ ParseableCount = 6
    /\ Promoted

----------------------------------------------------------------------------
(* Repeated coercion harness: coerce_date_columns is called on a table set  *)
(* and then on its own result, over frame objects.                          *)

\* the cells a column of each storage type can hold
CellsOf(dtype) ==
    CASE dtype = "object" -> {"d", "x", "null"}
      [] dtype = "float64" -> {"n", "y", "null"}
      [] dtype = "datetime64" -> {"ts", "null"}

TwiceColumns ==
    {[name |-> nm, dtype |-> dt, vals |-> v] :
        nm \in {c_amount, c_payment_date, c_Order_Date},
        dt \in {"object", "float64", "datetime64"},
        v \in SeqsUpTo({"d", "x", "n", "y", "ts", "null"}, MaxCells)}

\* a column whose cells fit its storage type
WellTyped(c) == \A i \in 1..Len(c.vals) : c.vals[i] \in CellsOf(c.dtype)

\* a second column of the same length as the drawn one
Companion(c) ==
    [name |-> c_first_name, dtype |-> "object", vals |-> [i \in 1..Len(c.vals) |-> "x"]]

\* the table sets of the harness: the drawn column alone or followed by a
\* companion column, the table alone or followed by the payment table
TwiceInputs ==
    {<<[canon |-> FALSE, cols |-> cols]>> \o rest :
        cols \in UNION {{<<c>>, <<c, Companion(c)>>} :
                            c \in {x \in TwiceColumns : WellTyped(x)}},
        rest \in {<<>>, <<T_payment>>}}

coTwiceKeys == <<n_customer, n_payment>>

InitCoerceTwice ==
    /\ appIdle
    /\ rs = rsIdle
    /\ \E frames \in TwiceInputs :
          co = [heap0 |-> frames,
                heap |-> frames,
                inp |-> [i \in 1..Len(frames) |-> [key |-> coTwiceKeys[i], ref |-> i]],
                out |-> <<>>, out2 |-> <<>>, stage |-> 0]

\* dfs = coerce_date_columns(dfs)
CoerceFirst ==
    /\ co.stage = 0
    /\ LET r == coerce_date_columns_refs(co.heap, co.inp)
       IN co' = [co EXCEPT !.heap = r.heap, !.out = r.coerced, !.stage = 1]
    /\ UNCHANGED <<appVars, rs>>

\* coerce_date_columns applied to its own result
CoerceSecond ==
    /\ co.stage = 1
    /\ LET r == coerce_date_columns_refs(co.heap, co.out)
       IN co' = [co EXCEPT !.heap = r.heap, !.out2 = r.coerced, !.stage = 2]
    /\ UNCHANGED <<appVars, rs>>

NextCoerceTwice == CoerceFirst \/ CoerceSecond

SpecCoerceTwice == InitCoerceTwice /\ [][NextCoerceTwice]_vars

\* the table set given, the first result and the second result
TwiceIn == Deref(co.heap0, co.inp)
TwiceOut == Deref(co.heap, co.out)
TwiceOut2 == Deref(co.heap, co.out2)

\* the positions <<table, column>> of the table set
ColumnsAt(d) == {<<i, j>> : i \in 1..Len(d), j \in 1..2} \cap
                {p \in (1..2) \X (1..2) : p[1] <= Len(d) /\ p[2] <= Len(d[p[1]].df.cols)}
ColAt(d, p) == d[p[1]].df.cols[p[2]]

\* line 54 is executed for the column: its values are sampled as strings
Sampled(col) == Eligible(col)

NameHasDate(col) == col.name \in {c_payment_date, c_Order_Date}
Temporal(col) == col.dtype = "datetime64"

\* C11 as stated: the second run changes no type and no value, and samples
\* no column that is already temporal.
C11_IdempotentNoResample ==
    co.stage = 2 =>
        /\ TwiceOut2 = TwiceOut
        /\ \A p \in ColumnsAt(TwiceOut) :
              Temporal(ColAt(TwiceOut, p)) => ~Sampled(ColAt(TwiceOut, p))

\* C11 amended: the second run changes no type and no value; on the second
\* run a temporal column is sampled and re-parsed as strings exactly when
\* its name contains "date", and it is then promoted again to the same
\* values.
C11_IdempotentValues ==
    co.stage = 2 =>
        /\ TwiceOut2 = TwiceOut
        /\ \A p \in ColumnsAt(TwiceOut) :
              Temporal(ColAt(TwiceOut, p)) =>
                  /\ Sampled(ColAt(TwiceOut, p)) <=> NameHasDate(ColAt(TwiceOut, p))
                  /\ Temporal(ColAt(TwiceOut2, p))

\* a string column named payment_date was promoted by the first run and, now
\* temporal, sampled again by the second, which left it as it was
C11_Witness ==
    /\ co.stage = 2
    /\ \E p \in ColumnsAt(TwiceIn) :
          /\ ColAt(TwiceIn, p).dtype = "object"
          /\ ColAt(TwiceIn, p).name = c_payment_date
          /\ ColAt(TwiceIn, p).vals = <<"d", "d">>
          /\ ColAt(TwiceOut, p).vals = <<"ts", "ts">>
          /\ Sampled(ColAt(TwiceOut, p))
          /\ ColAt(TwiceOut2, p) = ColAt(TwiceOut, p)

\* C12: after coerce_date_columns every column is either identical to the
\* input column or temporal in all of its rows, each value that does not
\* parse replaced by null; a temporal column stays temporal.
C12_AllOrNothing ==
    co.stage >= 1 =>
        \A p \in ColumnsAt(TwiceIn) :
            LET a == ColAt(TwiceIn, p)
                b == ColAt(TwiceOut, p)
            IN /\ b.name = a.name
               /\ Len(b.vals) = Len(a.vals)
               /\ \/ b = a
                  \/ /\ Temporal(b)
                     /\ \A i \in 1..Len(a.vals) :
                           /\ b.vals[i] \in {"ts", "null"}
                           /\ a.vals[i] \in {"x", "null"} => b.vals[i] = "null"
                           /\ a.vals[i] \in {"d", "ts"} => b.vals[i] = "ts"
               /\ Temporal(a) => Temporal(b)

\* the payment_date strings, two dates and one that does not parse, became
\* a temporal column with a null in the third row
C12_Witness ==
    /\ co.stage >= 1
    /\ \E p \in ColumnsAt(TwiceIn) :
          /\ ColAt(TwiceIn, p).dtype = "object"
          /\ ColAt(TwiceIn, p).vals = <<"d", "d", "x">>
          /\ Temporal(ColAt(TwiceOut, p))
          /\ ColAt(TwiceOut, p).vals = <<"ts", "ts", "null">>

\* C15: a column is considered for promotion only if its name contains
\* "date" in any letter case or its storage type is object; every other
\* column and every column with no non-null value is left as loaded, and a
\* considered column whose non-null values all parse is promoted.
C15_OnlyEligibleConsidered ==
    co.stage >= 1 =>
        \A p \in ColumnsAt(TwiceIn) :
            LET a == ColAt(TwiceIn, p)
                b == ColAt(TwiceOut, p)
                nonnull == {i \in 1..Len(a.vals) : a.vals[i] # "null"}
            IN /\ (~NameHasDate(a) /\ a.dtype # "object") => b = a
               /\ nonnull = {} => b = a
               /\ ( /\ NameHasDate(a) \/ a.dtype = "object"
                    /\ nonnull # {}
                    /\ \A i \in nonnull : a.vals[i] \in {"d", "y", "ts"} )
                  => Temporal(b)

\* a numeric column named amount, whose values would parse as dates, was
\* left as loaded
C15_Witness ==
    /\ co.stage >= 1
    /\ \E p \in ColumnsAt(TwiceIn) :
          /\ ColAt(TwiceIn, p) = [name |-> c_amount, dtype |-> "float64",
                                  vals |-> <<"y", "y">>]
          /\ ColAt(TwiceOut, p) = ColAt(TwiceIn, p)

\* C19: the result is a new table set with the same keys in the same order,
\* each table with the same column names in the same order and the same
\* row count, and the frames given keep their types and values.
C19_InputNotModified ==
    co.stage >= 1 =>
        /\ Keys(co.out) = Keys(co.inp)
        /\ \A i \in 1..Len(co.out) :
              /\ \A j \in 1..Len(co.inp) : co.out[i].ref # co.inp[j].ref
              /\ Len(TwiceOut[i].df.cols) = Len(TwiceIn[i].df.cols)
              /\ \A k \in 1..Len(TwiceIn[i].df.cols) :
                    /\ TwiceOut[i].df.cols[k].name = TwiceIn[i].df.cols[k].name
                    /\ Len(TwiceOut[i].df.cols[k].vals) = Len(TwiceIn[i].df.cols[k].vals)
        /\ \A j \in 1..Len(co.inp) : co.heap[co.inp[j].ref] = co.heap0[co.inp[j].ref]

\* a column was promoted in the result while the frame given still holds
\* the strings
C19_Witness ==
    /\ co.stage >= 1
    /\ Len(co.inp) = 2
    /\ \E p \in ColumnsAt(TwiceIn) :
          /\ co.heap[co.inp[p[1]].ref].cols[p[2]].dtype = "object"
          /\ Temporal(ColAt(TwiceOut, p))

----------------------------------------------------------------------------
(* Claims about the script runs *)

\* the store line 367 builds from this run's dfs
FreshCon == create_duckdb_connection(dfs)

TabsDrawn == "get_table" \in ops

\* C2: a role none of whose candidates is a substring of a loaded table name
\* resolves to None, and no dashboard query that names an unresolved role is
\* passed to run_sql.
C2_NoQueryOnUnresolvedRole ==
    TabsDrawn =>
        /\ \A f \in DOMAIN RoleCands :
              (\A k \in 1..Len(RoleCands[f]), i \in 1..Len(dfs) :
                  ~IsIn(RoleCands[f][k], Lower(dfs[i].key)))
              => resolved[f] = None
        /\ \A i \in 1..Len(calls) :
              calls[i].src \in DashboardSources => None \notin calls[i].sql.refs

\* a run in which the customer role is unresolved, the Customers query was
\* not run and the payment queries were
C2_Witness ==
    /\ pc = "done"
    /\ TabsDrawn
    /\ resolved.customer = None
    /\ resolved.payment # None
    /\ \E i \in 1..Len(calls) : calls[i].src = "q_metrics"
    /\ \A i \in 1..Len(calls) : calls[i].src # "q_customers"

LoadEntered == pc = "done" /\ msgs # <<"Starter">>

\* C4: a load action that has ended has ended in exactly one of Ready,
\* EmptyFolder, PathInvalid, and resolver calls, queries and the export are
\* performed only in Ready.
C4_LoadStateMachine ==
    /\ LoadEntered =>
          Len(msgs) = 1 /\ msgs[1] \in {"Ready", "EmptyFolder", "PathInvalid"}
    /\ ops \cap {"get_table", "run_sql", "saved_query", "adhoc", "export"} # {}
          => msgs = <<"Ready">>

\* C5: the tables of a Ready state are those of the directory's contents at
\* this load; nothing of an earlier load is reused.
C5_ReadyIsLatestDirectory ==
    msgs = <<"Ready">> =>
        /\ ~load_body(disk, folder).raised
        /\ loaded.dfs = load_body(disk, folder).dfs

\* C6: a file that fails both parses is skipped: the load is not aborted and
\* every other file of the directory is loaded.
C6_BadFileSkipped ==
    (loaded.called /\ ~loaded.from_cache) =>
        /\ ~loaded.raised
        /\ loaded.dfs = LoadFilesSkipping(glob_csv(disk, folder), <<>>).dfs

\* C7: load_csvs_from_folder returns one table per *.csv file of the
\* directory, keyed by the base name, and none for a directory without one,
\* which ends the run in EmptyFolder.
C7_OneTablePerCsv ==
    loaded.called =>
        LET files == glob_csv(disk, folder)
        IN /\ ~loaded.raised
           /\ Len(loaded.dfs) = Len(files)
           /\ {loaded.dfs[i].key : i \in 1..Len(loaded.dfs)}
                 = {files[i].base : i \in 1..Len(files)}
           /\ (files = <<>> /\ pc = "done") => msgs = <<"EmptyFolder">>

\* C8: a load on a missing directory ends in PathInvalid, a load on a
\* directory without *.csv files in EmptyFolder, and in both no store is
\* created and no table is coerced, registered or kept.
C8_InvalidOrEmptyKeepsNothing ==
    LoadEntered =>
        /\ ~isdir(disk, folder) => msgs = <<"PathInvalid">>
        /\ (isdir(disk, folder) /\ glob_csv(disk, folder) = <<>>)
              => msgs = <<"EmptyFolder">>
        /\ msgs \in {<<"PathInvalid">>, <<"EmptyFolder">>}
              => con = NoCon /\ dfs = <<>> /\ ops = {}

\* C9 as stated: a saved query is executed with the canonical names of its
\* template rewritten to the resolved names of the loaded tables.
C9_SavedQueryRewritten ==
    \A i \in 1..Len(calls) :
        calls[i].src = "saved" =>
            calls[i].sql.refs = saved_sql_rewritten(adv.saved, resolved).refs

\* C9 as amended: a saved query is executed with its template unchanged, the
\* canonical names not rewritten: it fails unless every canonical name is a
\* registered table, and reads the tables registered under those names.
C9_SavedQueryVerbatim ==
    \A i \in 1..Len(calls) :
        calls[i].src = "saved" =>
            LET tpl == SAVED_QUERIES[adv.saved]
            IN /\ calls[i].sql = tpl
               /\ calls[i].error <=> ~Binds(FreshCon, tpl)
               /\ ~calls[i].error =>
                     /\ tpl.refs \subseteq DOMAIN FreshCon.tables
                     /\ calls[i].rows = {<<n, FreshCon.tables[n]>> : n \in tpl.refs}

\* the Customers tab ran its query against customer_old and the saved query
\* over the same roles was run against customer and failed
C9_Witness ==
    /\ pc = "done"
    /\ resolved.customer = n_customer_old
    /\ \E i, j \in 1..Len(calls) :
          /\ calls[i].src = "q_customers"
          /\ n_customer_old \in calls[i].sql.refs
          /\ calls[j].src = "saved"
          /\ n_customer \in calls[j].sql.refs
          /\ n_customer_old \notin calls[j].sql.refs
          /\ calls[j].error

\* the tables of this run as loaded and, when the box is ticked, coerced
ReadyState == msgs # <<>> /\ msgs[1] = "Ready"

\* C13: in a Ready state every loaded table is registered under its key
\* lowercased with spaces replaced by underscores, and the store built by
\* the load holds nothing else.
C13_RegisteredNormalized ==
    ReadyState =>
        /\ \A i \in 1..Len(dfs) :
              /\ ReplaceSpaces(Lower(dfs[i].key)) \in DOMAIN FreshCon.tables
              /\ FreshCon.tables[ReplaceSpaces(Lower(dfs[i].key))] = dfs[i].df
        /\ \A n \in DOMAIN FreshCon.tables :
              \E i \in 1..Len(dfs) : n = ReplaceSpaces(Lower(dfs[i].key))

\* C16: in a Ready state every name get_table returned names a relation of
\* the store.
C16_ResolvedNameRegistered ==
    (ReadyState /\ TabsDrawn) =>
        \A f \in DOMAIN RoleCands :
            Truthy(resolved[f]) => Registered(FreshCon, resolved[f])

\* C18: in a Ready state the store holds as many tables as were loaded.
C18_StoreCountIsLoadedCount ==
    ReadyState => Cardinality(DOMAIN FreshCon.tables) = Len(dfs)

\* C20: a run enters the load when the load button was pressed or, without
\* it, when the folder is a directory with a *.csv file; PathInvalid and
\* EmptyFolder end only runs the load button started; a run without the
\* button on a missing or CSV-less folder shows the starter page, loads no
\* table and creates no store.
C20_LoadTrigger ==
    /\ (pc = "done" /\ msgs # <<"Starter">>) =>
          (pressed = "load" \/ Len(glob_csv(disk, folder)) > 0)
    /\ (pc = "done" /\ msgs # <<>> /\ msgs[1] \in {"PathInvalid", "EmptyFolder"}) =>
          pressed = "load"
    /\ (pc = "done" /\ pressed # "load" /\ Len(glob_csv(disk, folder)) = 0) =>
          /\ msgs = <<"Starter">>
          /\ ~loaded.called
          /\ dfs = <<>>
          /\ con = NoCon

\* the directory holds, for every table of d, the file <key>.csv an export
\* of d writes (of d as loaded or as coerced)
ExportedInto(dir, d) ==
    /\ dir.isdir
    /\ \A i \in 1..Len(d) :
          \E k \in 1..Len(dir.files) :
              /\ dir.files[k].base = d[i].key
              /\ dir.files[k].ext = "csv"
              /\ dir.files[k].df \in {csv_of(d[i].df), csv_of(coerce_table(d[i].df))}

ColumnSet(df) == {df.cols[j].name : j \in 1..Len(df.cols)}

\* the same keys and, for each key, the same row count and column set
SameShape(a, b) ==
    /\ {a[i].key : i \in 1..Len(a)} = {b[i].key : i \in 1..Len(b)}
    /\ \A i \in 1..Len(a), j \in 1..Len(b) :
          a[i].key = b[j].key =>
              /\ NRows(a[i].df) = NRows(b[j].df)
              /\ ColumnSet(a[i].df) = ColumnSet(b[j].df)

\* C14: a run that exported has written one file <key>.csv per table into
\* the exported_tables subdirectory of the folder; and a Ready run on
\* ./data/exported_tables, with the export of the tables of ./data in it,
\* has a table set with the same keys, row counts and column sets as the
\* tables of ./data.
C14_ExportRoundTrip ==
    /\ (pc = "done" /\ "export" \in ops) =>
          ExportedInto(disk[export_dir(folder)], dfs)
    /\ ( /\ ReadyState
         /\ folder = ExportPath
         /\ cache[DataPath].hit
         /\ cache[DataPath].value # <<>>
         /\ ExportedInto(disk[ExportPath], cache[DataPath].value) )
       => SameShape(dfs, cache[DataPath].value)

====
